---- MODULE Spec2Model ----
(***************************************************************************)
(* Employee Performance Analysis Report Generator (report_generator.py).   *)
(*                                                                         *)
(* One run of generate_report(): existence check, CSV load, aggregate      *)
(* statistics, department averages, the five content functions writing     *)
(* into a ReportPDF, pdf.output and the closing diagnostic.  Exceptions    *)
(* are not caught anywhere in the script, so a raising call ends the run   *)
(* with a traceback and exit status 1; exit() raises SystemExit(None),     *)
(* which ends the run with exit status 0.                                  *)
(*                                                                         *)
(* Text is modelled as a sequence of string pieces: a literal of the       *)
(* source is one piece, a converted value (str(int), str(float)) is the    *)
(* sequence of its characters.  A section heading's literal is split at    *)
(* its number: "1. Summary Statistics" is <<"1", ". ", "Summary            *)
(* Statistics">>.  A CSV score cell is a sequence of characters, parsed as *)
(* int() parses it.                                                        *)
(*                                                                         *)
(* print() is taken never to fail.  The documents of the model fit one    *)
(* page, so header() runs once, in add_page, and footer() once, when       *)
(* output closes the page.  Scores are small integers: the mean is         *)
(* computed exactly, as binary floating point does below 2^53.             *)
(***************************************************************************)
EXTENDS Integers, Sequences, FiniteSets

\* ------------------------------------------------------------------ bounds

\* Longest input file (data rows) of the pipeline specification.
MaxRows == 2

\* Longest record list of the statistics specification.
MaxRecords == 3

\* ----------------------------------------------------------- input alphabet

\* A name the core fonts' latin-1 encoding cannot encode (U+5434).
NonLatin1Name == "U+5434"

Names == {"Ann", NonLatin1Name}

Departments == {"A", "B"}

\* Score cells of the input file: "80", " 70" (int() strips blanks), "-5"
\* and "x" (no integer).
ScoreCells == {<<"8", "0">>, <<" ", "7", "0">>, <<"-", "5">>, <<"x">>}

\* Scores of the record lists of the statistics specification.
ScoreValues == {80, 90, 70, -5, 2}

\* The three columns read_csv_data reads.
RequiredColumns == {"Name", "Department", "Score"}

\* ------------------------------------------------------------ int() / str()

DigitChars == <<"0", "1", "2", "3", "4", "5", "6", "7", "8", "9">>

IsDigit(c) == \E i \in 1..10 : DigitChars[i] = c

DigitVal(c) == (CHOOSE i \in 1..10 : DigitChars[i] = c) - 1

\* str.strip() on the blanks of a cell.
RECURSIVE LStrip(_)
LStrip(s) == IF s # <<>> /\ Head(s) = " " THEN LStrip(Tail(s)) ELSE s

RECURSIVE RStrip(_)
RStrip(s) ==
    IF s # <<>> /\ s[Len(s)] = " " THEN RStrip(SubSeq(s, 1, Len(s) - 1)) ELSE s

Strip(s) == RStrip(LStrip(s))

HasSign(s) == s # <<>> /\ Head(s) \in {"+", "-"}

\* The digits of an integer literal: digits, with single underscores between.
IsDigitBody(b) ==
    /\ b # <<>>
    /\ IsDigit(b[1])
    /\ IsDigit(b[Len(b)])
    /\ \A i \in 1..Len(b) : IsDigit(b[i]) \/ b[i] = "_"
    /\ \A i \in 1..(Len(b) - 1) : ~(b[i] = "_" /\ b[i + 1] = "_")

RECURSIVE DigitsValue(_, _)
DigitsValue(b, acc) ==
    IF b = <<>> THEN acc
    ELSE IF Head(b) = "_" THEN DigitsValue(Tail(b), acc)
    ELSE DigitsValue(Tail(b), 10 * acc + DigitVal(Head(b)))

\* int(text) raises ValueError exactly when IntParses(text) is FALSE.
IntParses(text) ==
    LET s == Strip(text)
        b == IF HasSign(s) THEN Tail(s) ELSE s
    IN  IsDigitBody(b)

ParseInt(text) ==
    LET s == Strip(text)
        b == IF HasSign(s) THEN Tail(s) ELSE s
        v == DigitsValue(b, 0)
    IN  IF HasSign(s) /\ Head(s) = "-" THEN 0 - v ELSE v

RECURSIVE NatToStr(_)
NatToStr(n) ==
    IF n < 10 THEN <<DigitChars[n + 1]>>
    ELSE NatToStr(n \div 10) \o <<DigitChars[(n % 10) + 1]>>

\* str(n) of an int.
IntToStr(n) == IF n < 0 THEN <<"-">> \o NatToStr(0 - n) ELSE NatToStr(n)

\* ------------------------------------------------- statistics.mean, round

RECURSIVE SumSeq(_)
SumSeq(s) == IF s = <<>> THEN 0 ELSE Head(s) + SumSeq(Tail(s))

RECURSIVE MaxSeq(_)
MaxSeq(s) ==
    IF Len(s) = 1 THEN s[1]
    ELSE LET m == MaxSeq(Tail(s)) IN IF m > Head(s) THEN m ELSE Head(s)

RECURSIVE MinSeq(_)
MinSeq(s) ==
    IF Len(s) = 1 THEN s[1]
    ELSE LET m == MinSeq(Tail(s)) IN IF m < Head(s) THEN m ELSE Head(s)

\* Mutant: the hundredths are cut off instead of rounded.
RoundHundredths_Floor(num, den) == (100 * num) \div den

\* 100 * x rounded to the nearest integer, for x = num / den, den > 0; a tie
\* goes to the even neighbour.  A tie needs a denominator that is a multiple
\* of 8, and below 40 records every tie value is a multiple of 1/8, which
\* binary floating point holds exactly, so that round() sees the tie.
RoundHundredths(num, den) ==
    LET q == (100 * num) \div den
        r == (100 * num) % den
    IN  IF 2 * r < den THEN q
        ELSE IF 2 * r > den THEN q + 1
        ELSE IF q % 2 = 0 THEN q ELSE q + 1

\* round(statistics.mean(scores), 2) for a non-empty list of ints.
\* statistics.mean returns an int when the mean is integral and a float
\* otherwise; round(int, 2) is that int.  The value is kept in hundredths.
RoundedMean(scores) ==
    LET total == SumSeq(scores)
        n == Len(scores)
    IN  IF total % n = 0
        THEN [type |-> "int", hundredths |-> 100 * (total \div n)]
        ELSE [type |-> "float", hundredths |-> RoundHundredths(total, n)]

\* str(v) of such a value: "80" for the int 80, "23.33", "80.5", "80.0" for
\* a float (repr keeps one fractional digit at least and no trailing zero
\* beyond it).
NumToStr(v) ==
    IF v.type = "int" THEN IntToStr(v.hundredths \div 100)
    ELSE LET a == IF v.hundredths < 0 THEN 0 - v.hundredths ELSE v.hundredths
             sign == IF v.hundredths < 0 THEN <<"-">> ELSE <<>>
             frac == a % 100
             fracStr == IF frac % 10 = 0
                        THEN <<DigitChars[(frac \div 10) + 1]>>
                        ELSE <<DigitChars[(frac \div 10) + 1],
                               DigitChars[(frac % 10) + 1]>>
         IN  sign \o NatToStr(a \div 100) \o <<".">> \o fracStr

\* ------------------------------------------------------------------- state

VARIABLES
    fileExists,   \* os.path.exists(DATA_FILE)
    header,       \* the column names of the file's header row
    rows,         \* the file's data rows, each a mapping column -> cell
    pc,           \* the call generate_report is about to make
    employees,    \* generate_report's local of that name
    stats,        \* generate_report's local of that name
    dept_avg,     \* generate_report's local of that name
    pdf,          \* the ReportPDF object: the drawing calls made on it
    outputFile,   \* OUTPUT_FILE on disk
    stdout,       \* the diagnostics printed so far
    raised,       \* the exception that ended the run and the call of
                  \* generate_report it left (the traceback), NoException
                  \* if none
    exitCode      \* the process's exit status, -1 while it runs

vars == <<fileExists, header, rows, pc, employees, stats, dept_avg, pdf,
          outputFile, stdout, raised, exitCode>>

DATA_FILE == "data.csv"

OUTPUT_FILE == "employee_performance_report.pdf"

PAGE_MARGIN == 15

\* A local of generate_report that no assignment has bound yet.
Unbound == [bound |-> FALSE]

Bound(v) == [bound |-> TRUE, value |-> v]

NoException == [exc |-> "", at |-> ""]

\* OUTPUT_FILE before the run writes it.
NotWritten == [status |-> "absent"]

\* ----------------------------------------------------------- read_csv_data

\* One pass of the loop body of read_csv_data over a row: the dict lookups
\* in the order the dict display evaluates them, then int().
RowError(row) ==
    IF "Name" \notin DOMAIN row THEN "KeyError"
    ELSE IF "Department" \notin DOMAIN row THEN "KeyError"
    ELSE IF "Score" \notin DOMAIN row THEN "KeyError"
    ELSE IF ~IntParses(row["Score"]) THEN "ValueError"
    ELSE ""

RowRecord(row) ==
    [name |-> row["Name"],
     department |-> row["Department"],
     score |-> ParseInt(row["Score"])]

\* Mutant: a row that raises is skipped and the rows around it are kept.
RECURSIVE ReadRowsSkip(_, _)
ReadRowsSkip(rs, acc) ==
    IF rs = <<>> THEN [error |-> "", employees |-> acc]
    ELSE IF RowError(Head(rs)) # ""
         THEN ReadRowsSkip(Tail(rs), acc)
         ELSE ReadRowsSkip(Tail(rs), Append(acc, RowRecord(Head(rs))))

read_csv_data_SkipBad(rs) == ReadRowsSkip(rs, <<>>)

\* The loop of read_csv_data: acc is the local list `employees`.  The result
\* is the returned list, or the exception that leaves the function (the
\* list built so far is then dropped with the frame).
RECURSIVE ReadRows(_, _)
ReadRows(rs, acc) ==
    IF rs = <<>> THEN [error |-> "", employees |-> acc]
    ELSE IF RowError(Head(rs)) # ""
         THEN [error |-> RowError(Head(rs)), employees |-> <<>>]
         ELSE ReadRows(Tail(rs), Append(acc, RowRecord(Head(rs))))

read_csv_data(rs) == ReadRows(rs, <<>>)

\* ------------------------------------------------------ the data analysis

Scores(emps) == [i \in 1..Len(emps) |-> emps[i].score]

\* statistics.mean raises StatisticsError on an empty list; the dict display
\* of calculate_statistics evaluates len() first and mean() second.
StatisticsError(emps) == Len(emps) = 0

\* Mutant: max() and min() stand in each other's place.
calculate_statistics_Swapped(emps) ==
    [total_employees |-> Len(emps),
     average_score |-> RoundedMean(Scores(emps)),
     highest_score |-> MinSeq(Scores(emps)),
     lowest_score |-> MaxSeq(Scores(emps))]

calculate_statistics(emps) ==
    [total_employees |-> Len(emps),
     average_score |-> RoundedMean(Scores(emps)),
     highest_score |-> MaxSeq(Scores(emps)),
     lowest_score |-> MinSeq(Scores(emps))]

\* Mutant: a group is opened whenever the department differs from that of
\* the record before (the grouping of itertools.groupby on unsorted data).
RECURSIVE GroupByDept_Consecutive(_, _)
GroupByDept_Consecutive(emps, dept_data) ==
    IF emps = <<>> THEN dept_data
    ELSE LET dept == Head(emps).department
             score == Head(emps).score
             n == Len(dept_data)
         IN  IF n > 0 /\ dept_data[n].dept = dept
             THEN GroupByDept_Consecutive(
                      Tail(emps),
                      [dept_data EXCEPT ![n].scores = Append(@, score)])
             ELSE GroupByDept_Consecutive(
                      Tail(emps),
                      Append(dept_data, [dept |-> dept, scores |-> <<score>>]))

\* The first loop of department_wise_average: dept_data, a dict in insertion
\* order, as a sequence of [dept, scores].
RECURSIVE GroupByDept(_, _)
GroupByDept(emps, dept_data) ==
    IF emps = <<>> THEN dept_data
    ELSE LET dept == Head(emps).department
             score == Head(emps).score
             seen == \E i \in 1..Len(dept_data) : dept_data[i].dept = dept
             withKey == IF seen THEN dept_data
                        ELSE Append(dept_data, [dept |-> dept, scores |-> <<>>])
             appended == [i \in 1..Len(withKey) |->
                            IF withKey[i].dept = dept
                            THEN [withKey[i] EXCEPT !.scores = Append(@, score)]
                            ELSE withKey[i]]
         IN  GroupByDept(Tail(emps), appended)

\* The second loop: one rounded mean per key, in dept_data's order.
department_wise_average(emps) ==
    LET dept_data == GroupByDept(emps, <<>>)
    IN  [i \in 1..Len(dept_data) |->
           [dept |-> dept_data[i].dept,
            avg |-> RoundedMean(dept_data[i].scores)]]

\* ------------------------------------------------------------ the document

\* pdf.cell(w, h, txt, border, align) under the font set before it.
Cell(w, h, txt, font, border, align) ==
    [op |-> "cell", w |-> w, h |-> h, txt |-> txt, font |-> font,
     border |-> border, align |-> align]

\* pdf.ln(h).
Ln(h) == [op |-> "ln", h |-> h]

\* The core fonts encode text as latin-1.
Latin1Encodable(txt) == \A i \in 1..Len(txt) : txt[i] # NonLatin1Name

\* ReportPDF.header, run by add_page.
ReportHeader ==
    <<Cell(0, 10, <<"Employee Performance Analysis Report">>, <<"B", 14>>, 0, "C"),
      Ln(15)>>

\* ReportPDF.footer, run when the page is closed.
ReportFooter(page_no) ==
    <<Cell(0, 10, <<"Page ">> \o IntToStr(page_no), <<"", 9>>, 0, "C")>>

\* strftime("%B %d, %Y") of the wall clock at the call.
DateStr == "<%B %d, %Y>"

add_report_metadata ==
    <<Cell(0, 8, <<"Report Generated On: ", DateStr>>, <<"", 11>>, 0, ""),
      Ln(5)>>

add_summary_section(st) ==
    <<Cell(0, 10, <<"1", ". ", "Summary Statistics">>, <<"B", 12>>, 0, ""),
      Cell(0, 8, <<"Total Employees: ">> \o IntToStr(st.total_employees),
           <<"", 11>>, 0, ""),
      Cell(0, 8, <<"Average Score: ">> \o NumToStr(st.average_score),
           <<"", 11>>, 0, ""),
      Cell(0, 8, <<"Highest Score: ">> \o IntToStr(st.highest_score),
           <<"", 11>>, 0, ""),
      Cell(0, 8, <<"Lowest Score: ">> \o IntToStr(st.lowest_score),
           <<"", 11>>, 0, ""),
      Ln(5)>>

RECURSIVE DeptLines(_)
DeptLines(da) ==
    IF da = <<>> THEN <<>>
    ELSE <<Cell(0, 8,
                <<Head(da).dept, ": Average Score = ">> \o NumToStr(Head(da).avg),
                <<"", 11>>, 0, "")>>
         \o DeptLines(Tail(da))

add_department_analysis(da) ==
    <<Cell(0, 10, <<"2", ". ", "Department-wise Performance">>, <<"B", 12>>, 0, "")>>
    \o DeptLines(da)
    \o <<Ln(5)>>

col_widths == <<60, 60, 30>>

TableHead ==
    <<Cell(0, 10, <<"3", ". ", "Employee-wise Detailed Scores">>, <<"B", 12>>, 0, ""),
      Cell(col_widths[1], 10, <<"Name">>, <<"B", 11>>, 1, "C"),
      Cell(col_widths[2], 10, <<"Department">>, <<"B", 11>>, 1, "C"),
      Cell(col_widths[3], 10, <<"Score">>, <<"B", 11>>, 1, "C"),
      Ln(10)>>

\* The body of the loop over employees in add_employee_table.
TableRow(emp) ==
    <<Cell(col_widths[1], 10, <<emp.name>>, <<"", 11>>, 1, ""),
      Cell(col_widths[2], 10, <<emp.department>>, <<"", 11>>, 1, ""),
      Cell(col_widths[3], 10, IntToStr(emp.score), <<"", 11>>, 1, "C"),
      Ln(10)>>

\* Mutant: the loop runs over reversed(employees).
RECURSIVE TableRows_Reversed(_)
TableRows_Reversed(emps) ==
    IF emps = <<>> THEN <<>>
    ELSE TableRows_Reversed(Tail(emps)) \o TableRow(Head(emps))

RECURSIVE TableRows(_)
TableRows(emps) ==
    IF emps = <<>> THEN <<>> ELSE TableRow(Head(emps)) \o TableRows(Tail(emps))

add_employee_table(emps) == TableHead \o TableRows(emps) \o <<Ln(5)>>

\* Mutant: the heading of the conclusion carries the number 5.
add_conclusion_Renumbered(st) ==
    <<Cell(0, 10, <<"5", ". ", "Conclusion">>, <<"B", 12>>, 0, ""),
      Cell(0, 8,
           <<"The overall average performance score of employees is ">>
           \o NumToStr(st.average_score)
           \o <<". Continuous monitoring and targeted improvements can help increase overall productivity.">>,
           <<"", 11>>, 0, "J")>>

add_conclusion(st) ==
    <<Cell(0, 10, <<"4", ". ", "Conclusion">>, <<"B", 12>>, 0, ""),
      Cell(0, 8,
           <<"The overall average performance score of employees is ">>
           \o NumToStr(st.average_score)
           \o <<". Continuous monitoring and targeted improvements can help increase overall productivity.">>,
           <<"", 11>>, 0, "J")>>

\* Whether every text drawn so far can be encoded as latin-1.
Encodable(doc) ==
    \A i \in 1..Len(doc) : doc[i].op = "cell" => Latin1Encodable(doc[i].txt)

\* What the drawing calls `cells` leave in the document `doc`, and whether
\* one of them raises.  A build of the PDF library that checks the encoding
\* in cell() (strict) raises at the first text latin-1 cannot encode, with
\* the cells before it drawn; a build that encodes the pages in output()
\* draws them all.
RECURSIVE Draw(_, _, _)
Draw(doc, cells, strict) ==
    IF cells = <<>> THEN [error |-> "", doc |-> doc]
    ELSE IF strict /\ ~Encodable(<<Head(cells)>>)
         THEN [error |-> "UnicodeEncodeError", doc |-> doc]
         ELSE Draw(Append(doc, Head(cells)), Tail(cells), strict)

\* ----------------------------------------------------------------- actions

\* The statements of generate_report, in program order.
Statements ==
    <<"check_file_exists", "read_csv_data", "calculate_statistics",
      "department_wise_average", "ReportPDF", "add_report_metadata",
      "add_summary_section", "add_department_analysis", "add_employee_table",
      "add_conclusion", "output", "print_success">>

StatementIndex(p) == CHOOSE i \in 1..Len(Statements) : Statements[i] = p

print(line) == stdout' = Append(stdout, line)

\* Mutant: the exception is caught and logged, and the run goes on with the
\* statement after the one that raised.
Raise_Logged(exc) ==
    /\ raised' = [exc |-> exc, at |-> pc]
    /\ exitCode' = exitCode
    /\ pc' = IF StatementIndex(pc) < Len(Statements)
             THEN Statements[StatementIndex(pc) + 1]
             ELSE "done"

\* Mutant: the exception is caught and the run starts over.
Raise_Retry(exc) ==
    /\ raised' = raised
    /\ exitCode' = exitCode
    /\ pc' = "check_file_exists"

\* An uncaught exception: traceback, exit status 1.
Raise(exc) ==
    /\ raised' = [exc |-> exc, at |-> pc]
    /\ exitCode' = 1
    /\ pc' = "aborted"

\* check_file_exists(DATA_FILE); exit() raises SystemExit(None).
CheckFileExists ==
    /\ pc = "check_file_exists"
    /\ IF ~fileExists
       THEN /\ print(<<"ERROR: ", DATA_FILE, " not found!">>)
            /\ raised' = [exc |-> "SystemExit", at |-> pc]
            /\ exitCode' = 0
            /\ pc' = "aborted"
       ELSE /\ print(<<DATA_FILE, " found successfully.">>)
            /\ pc' = "read_csv_data"
            /\ UNCHANGED <<raised, exitCode>>
    /\ UNCHANGED <<fileExists, header, rows, employees, stats, dept_avg, pdf,
                   outputFile>>

\* employees = read_csv_data(DATA_FILE)
ReadCsvData ==
    /\ pc = "read_csv_data"
    /\ LET r == read_csv_data(rows)
       IN  IF r.error # ""
           THEN /\ Raise(r.error)
                /\ UNCHANGED <<employees, stdout>>
           ELSE /\ employees' = Bound(r.employees)
                /\ print(<<"CSV data read successfully.">>)
                /\ pc' = "calculate_statistics"
                /\ UNCHANGED <<raised, exitCode>>
    /\ UNCHANGED <<fileExists, header, rows, stats, dept_avg, pdf, outputFile>>

\* Mutant: an empty record list is given statistics of zero instead of the
\* exception.
CalculateStatistics_EmptyDefaults ==
    /\ pc = "calculate_statistics"
    /\ stats' = Bound(IF employees.value = <<>>
                      THEN [total_employees |-> 0,
                            average_score |-> [type |-> "int", hundredths |-> 0],
                            highest_score |-> 0,
                            lowest_score |-> 0]
                      ELSE calculate_statistics(employees.value))
    /\ print(<<"Statistics calculated successfully.">>)
    /\ pc' = "department_wise_average"
    /\ UNCHANGED <<fileExists, header, rows, employees, dept_avg, pdf,
                   outputFile, raised, exitCode>>

\* stats = calculate_statistics(employees)
CalculateStatistics ==
    /\ pc = "calculate_statistics"
    /\ IF StatisticsError(employees.value)
       THEN /\ Raise("StatisticsError")
            /\ UNCHANGED <<stats, stdout>>
       ELSE /\ stats' = Bound(calculate_statistics(employees.value))
            /\ print(<<"Statistics calculated successfully.">>)
            /\ pc' = "department_wise_average"
            /\ UNCHANGED <<raised, exitCode>>
    /\ UNCHANGED <<fileExists, header, rows, employees, dept_avg, pdf,
                   outputFile>>

\* dept_avg = department_wise_average(employees)
DepartmentWiseAverage ==
    /\ pc = "department_wise_average"
    /\ dept_avg' = Bound(department_wise_average(employees.value))
    /\ print(<<"Department-wise averages calculated.">>)
    /\ pc' = "ReportPDF"
    /\ UNCHANGED <<fileExists, header, rows, employees, stats, pdf,
                   outputFile, raised, exitCode>>

\* pdf = ReportPDF(); set_auto_page_break; add_page() runs header().
NewReportPDF ==
    /\ pc = "ReportPDF"
    /\ pdf' = Bound(ReportHeader)
    /\ pc' = "add_report_metadata"
    /\ UNCHANGED <<fileExists, header, rows, employees, stats, dept_avg,
                   outputFile, stdout, raised, exitCode>>

\* One content function: its cells drawn into pdf, or its exception.
Content(cells, strict, next) ==
    LET d == Draw(pdf.value, cells, strict)
    IN  /\ pdf' = Bound(d.doc)
        /\ IF d.error # ""
           THEN Raise(d.error)
           ELSE /\ pc' = next
                /\ UNCHANGED <<raised, exitCode>>
        /\ UNCHANGED <<fileExists, header, rows, employees, stats, dept_avg,
                       outputFile, stdout>>

AddReportMetadata ==
    /\ pc = "add_report_metadata"
    /\ \E strict \in BOOLEAN :
         Content(add_report_metadata, strict, "add_summary_section")

AddSummarySection ==
    /\ pc = "add_summary_section"
    /\ \E strict \in BOOLEAN :
         Content(add_summary_section(stats.value), strict,
                 "add_department_analysis")

AddDepartmentAnalysis ==
    /\ pc = "add_department_analysis"
    /\ \E strict \in BOOLEAN :
         Content(add_department_analysis(dept_avg.value), strict,
                 "add_employee_table")

AddEmployeeTable ==
    /\ pc = "add_employee_table"
    /\ \E strict \in BOOLEAN :
         Content(add_employee_table(employees.value), strict, "add_conclusion")

AddConclusion ==
    /\ pc = "add_conclusion"
    /\ \E strict \in BOOLEAN :
         Content(add_conclusion(stats.value), strict, "output")

\* What the file system does with the write of OUTPUT_FILE.
IoOutcomes == {"ok", "open_fails", "write_fails"}

\* pdf.output(OUTPUT_FILE): closes the page (footer), encodes the pages, then
\* opens the file and writes the buffer.
Output ==
    /\ pc = "output"
    /\ LET doc == pdf.value \o ReportFooter(1)
       IN  /\ pdf' = Bound(doc)
           /\ IF ~Encodable(doc)
              THEN /\ Raise("UnicodeEncodeError")
                   /\ UNCHANGED outputFile
              ELSE \E io \in IoOutcomes :
                     \/ /\ io = "ok"
                        /\ outputFile' = [status |-> "complete", content |-> doc]
                        /\ pc' = "print_success"
                        /\ UNCHANGED <<raised, exitCode>>
                     \/ /\ io = "open_fails"
                        /\ Raise("OSError")
                        /\ UNCHANGED outputFile
                     \/ /\ io = "write_fails"
                        /\ Raise("OSError")
                        /\ outputFile' = [status |-> "partial"]
    /\ UNCHANGED <<fileExists, header, rows, employees, stats, dept_avg, stdout>>

\* print("PDF report generated successfully!"), and the script ends.
PrintSuccess ==
    /\ pc = "print_success"
    /\ print(<<"PDF report generated successfully!">>)
    /\ pc' = "done"
    /\ exitCode' = 0
    /\ UNCHANGED <<fileExists, header, rows, employees, stats, dept_avg, pdf,
                   outputFile, raised>>

\* ------------------------------------------------------- the specifications

\* The header rows of the input: complete, or one required column short.
Headers == {RequiredColumns} \cup {RequiredColumns \ {c} : c \in RequiredColumns}

FullRows == [Name : Names, Department : Departments, Score : ScoreCells]

\* The data rows a DictReader yields under header h.
RowsUnder(h) == {[c \in h |-> r[c]] : r \in FullRows}

SeqsUpTo(S, n) == UNION {[1..k -> S] : k \in 0..n}

Running ==
    /\ employees = Unbound
    /\ stats = Unbound
    /\ dept_avg = Unbound
    /\ pdf = Unbound
    /\ outputFile = NotWritten
    /\ raised = NoException
    /\ exitCode = -1

\* The script is started on a file system where DATA_FILE is missing, or
\* holds a header and up to MaxRows data rows.
Init ==
    /\ fileExists \in BOOLEAN
    /\ header \in (IF fileExists THEN Headers ELSE {RequiredColumns})
    /\ rows \in (IF fileExists THEN SeqsUpTo(RowsUnder(header), MaxRows) ELSE {<<>>})
    /\ pc = "check_file_exists"
    /\ stdout = <<>>
    /\ Running

Next ==
    \/ CheckFileExists
    \/ ReadCsvData
    \/ CalculateStatistics
    \/ DepartmentWiseAverage
    \/ NewReportPDF
    \/ AddReportMetadata
    \/ AddSummarySection
    \/ AddDepartmentAnalysis
    \/ AddEmployeeTable
    \/ AddConclusion
    \/ Output
    \/ PrintSuccess

Spec == Init /\ [][Next]_vars

\* The script is one thread that runs each statement as soon as the one
\* before it returns.
FairSpec == Spec /\ WF_vars(Next)

\* The record lists of the statistics specification.
RecordLists ==
    SeqsUpTo([name : {"Ann"}, department : Departments, score : ScoreValues],
             MaxRecords)

\* The file a record list is loaded from.
RowsOf(recs) ==
    [i \in 1..Len(recs) |->
       [Name |-> recs[i].name,
        Department |-> recs[i].department,
        Score |-> IntToStr(recs[i].score)]]

\* The run right after read_csv_data has returned a record list.
StatInit ==
    \E recs \in RecordLists :
      /\ fileExists = TRUE
      /\ header = RequiredColumns
      /\ rows = RowsOf(recs)
      /\ read_csv_data(rows).error = ""
      /\ employees = Bound(read_csv_data(rows).employees)
      /\ pc = "calculate_statistics"
      /\ stdout = <<<<DATA_FILE, " found successfully.">>,
                    <<"CSV data read successfully.">>>>
      /\ stats = Unbound
      /\ dept_avg = Unbound
      /\ pdf = Unbound
      /\ outputFile = NotWritten
      /\ raised = NoException
      /\ exitCode = -1

StatNext == CalculateStatistics \/ DepartmentWiseAverage

StatSpec == StatInit /\ [][StatNext]_vars

\* ------------------------------------------------------ reading the state

\* Whether some cell of the document holds the text piece.
HasPiece(doc, piece) ==
    \E i \in 1..Len(doc) :
        doc[i].op = "cell" /\ \E j \in 1..Len(doc[i].txt) : doc[i].txt[j] = piece

Drawn(piece) == pdf.bound /\ HasPiece(pdf.value, piece)

\* What a statement leaves behind as soon as it has begun to act.
Started(p) ==
    CASE p = "check_file_exists" -> stdout # <<>>
      [] p = "read_csv_data" -> employees.bound
      [] p = "calculate_statistics" -> stats.bound
      [] p = "department_wise_average" -> dept_avg.bound
      [] p = "ReportPDF" -> pdf.bound
      [] p = "add_report_metadata" -> Drawn("Report Generated On: ")
      [] p = "add_summary_section" -> Drawn("Summary Statistics")
      [] p = "add_department_analysis" -> Drawn("Department-wise Performance")
      [] p = "add_employee_table" -> Drawn("Employee-wise Detailed Scores")
      [] p = "add_conclusion" -> Drawn("Conclusion")
      [] p = "output" -> outputFile # NotWritten \/ Drawn("Page ")
      [] p = "print_success" ->
            \E i \in 1..Len(stdout) :
                stdout[i] = <<"PDF report generated successfully!">>

\* What a statement leaves behind when it has returned.
Succeeded(p) ==
    /\ Started(p)
    /\ raised.at # p
    /\ pc # p

\* The stages before the write of the output document.
StagesBeforeOutput == {Statements[i] : i \in 1..10}

\* C1: a stage that fails ends the run: no later stage has acted, and the
\* output file is not written; the output file is written only after every
\* earlier stage has succeeded.
C1_FailureAbortsBeforeLaterStages ==
    /\ raised.exc # "" =>
         /\ pc = "aborted"
         /\ \A i \in 1..Len(Statements) :
              i > StatementIndex(raised.at) => ~Started(Statements[i])
    /\ raised.at \in StagesBeforeOutput => outputFile = NotWritten
    /\ outputFile # NotWritten => \A p \in StagesBeforeOutput : Succeeded(p)

\* C1 witness: rendering failed in the employee table after the load, the
\* statistics and three sections had succeeded; nothing is written.
C1_Witness ==
    /\ raised.at = "add_employee_table"
    /\ Succeeded("add_department_analysis")
    /\ ~Started("add_conclusion")
    /\ outputFile = NotWritten

\* C2: with the input file missing the run prints a diagnostic and ends at
\* once with a nonzero exit status, nothing loaded and nothing computed; the
\* success diagnostic and the exit status 0 come only with the file present.
C2_MissingFileExitsNonzero ==
    /\ (~fileExists /\ pc # "check_file_exists") =>
         /\ pc = "aborted"
         /\ stdout = <<<<"ERROR: ", DATA_FILE, " not found!">>>>
         /\ employees = Unbound
         /\ stats = Unbound
         /\ exitCode # 0
    /\ (Started("print_success") \/ exitCode = 0) => fileExists

\* What C2 has right of the missing file: the diagnostic, the immediate end
\* and the untouched locals.
C2_MissingFileEndsRun ==
    (~fileExists /\ pc # "check_file_exists") =>
        /\ pc = "aborted"
        /\ raised = [exc |-> "SystemExit", at |-> "check_file_exists"]
        /\ stdout = <<<<"ERROR: ", DATA_FILE, " not found!">>>>
        /\ employees = Unbound
        /\ stats = Unbound
        /\ outputFile = NotWritten

\* A row whose Score cell is no integer literal.
BadScoreRow(row) == "Score" \in DOMAIN row /\ ~IntParses(row["Score"])

MissingColumn == ~(RequiredColumns \subseteq header)

\* The consequence C3 draws: the load has failed as a whole, no record list
\* has reached generate_report, and nothing was computed or written.
LoadFailed ==
    /\ employees = Unbound
    /\ stats = Unbound
    /\ dept_avg = Unbound
    /\ outputFile = NotWritten
    /\ pc \notin {"check_file_exists", "read_csv_data"} =>
         /\ pc = "aborted"
         /\ raised.at = "read_csv_data"
         /\ raised.exc \in {"KeyError", "ValueError"}

C4_EmptyDatasetAborts ==
    (employees.bound /\ employees.value = <<>>) =>
        /\ stats = Unbound
        /\ dept_avg = Unbound
        /\ pdf = Unbound
        /\ outputFile = NotWritten
        /\ pc # "calculate_statistics" =>
             /\ pc = "aborted"
             /\ raised = [exc |-> "StatisticsError", at |-> "calculate_statistics"]

\* C4 witness: a header-only file has been loaded and the run has aborted.
C4_Witness ==
    /\ fileExists
    /\ ~MissingColumn
    /\ rows = <<>>
    /\ employees = Bound(<<>>)
    /\ pc = "aborted"

\* ------------------------------------------------- claims on the statistics

Abs(x) == IF x < 0 THEN 0 - x ELSE x

\* h hundredths is num / den rounded to 2 decimal places: no multiple of
\* 0.01 lies nearer to num / den.
IsRounded(h, num, den) == 2 * Abs(100 * num - h * den) <= den

\* The scores of the records of department d, summed and counted.
RECURSIVE DeptTotal(_, _)
DeptTotal(emps, d) ==
    IF emps = <<>> THEN 0
    ELSE (IF Head(emps).department = d THEN Head(emps).score ELSE 0)
         + DeptTotal(Tail(emps), d)

DeptCount(emps, d) ==
    Cardinality({i \in 1..Len(emps) : emps[i].department = d})

\* The row of the first record of department d.
FirstRow(emps, d) ==
    CHOOSE i \in 1..Len(emps) :
        /\ emps[i].department = d
        /\ \A j \in 1..(i - 1) : emps[j].department # d

IsBodyCell(c) == c.op = "cell" /\ c.border = 1 /\ c.font = <<"", 11>>

\* C8: the loaded records are the rows of the input in row order, they stay
\* so through the statistics steps, and the detailed table holds one row per
\* record in that order, nothing dropped, repeated or moved.
C8_RecordOrderPreserved ==
    /\ employees.bound =>
         /\ Len(employees.value) = Len(rows)
         /\ \A i \in 1..Len(rows) :
              /\ employees.value[i].name = rows[i]["Name"]
              /\ employees.value[i].department = rows[i]["Department"]
              /\ employees.value[i].score = ParseInt(rows[i]["Score"])
    /\ Succeeded("add_employee_table") =>
         LET body == SelectSeq(pdf.value, IsBodyCell)
         IN  /\ Len(body) = 3 * Len(rows)
             /\ \A i \in 1..Len(rows) :
                  /\ body[3 * i - 2].txt = <<rows[i]["Name"]>>
                  /\ body[3 * i - 1].txt = <<rows[i]["Department"]>>
                  /\ IntParses(body[3 * i].txt)
                  /\ ParseInt(body[3 * i].txt) = ParseInt(rows[i]["Score"])

\* C8 witness: a finished run on two rows that differ in every column and
\* stand in descending order of department, name and score.
C8_Witness ==
    /\ pc = "done"
    /\ Len(rows) = 2
    /\ rows[1]["Department"] = "B" /\ rows[2]["Department"] = "A"
    /\ ParseInt(rows[1]["Score"]) = 80 /\ ParseInt(rows[2]["Score"]) = -5

\* The piece of text that tells each section: the metadata line and the
\* titles of the four headings.
SectionTitles ==
    <<"Report Generated On: ", "Summary Statistics",
      "Department-wise Performance", "Employee-wise Detailed Scores",
      "Conclusion">>

\* A piece of the content each section holds below its first line.
SectionContent ==
    <<"Report Generated On: ", "Total Employees: ", ": Average Score = ",
      "Score", "The overall average performance score of employees is ">>

CellsWith(doc, piece) ==
    {i \in 1..Len(doc) :
        doc[i].op = "cell" /\ \E j \in 1..Len(doc[i].txt) : doc[i].txt[j] = piece}

\* The first cell of section k of a document, and the first cell with its
\* content.
SectionStart(doc, k) ==
    CHOOSE i \in CellsWith(doc, SectionTitles[k]) :
        \A j \in CellsWith(doc, SectionTitles[k]) : i <= j

ContentStart(doc, k) ==
    CHOOSE i \in CellsWith(doc, SectionContent[k]) :
        \A j \in CellsWith(doc, SectionContent[k]) : i <= j

\* The five sections stand in the document once each and in their order,
\* the content of each between its first line and the next section's.
SectionsInOrder(doc) ==
    /\ \A k \in 1..5 : Cardinality(CellsWith(doc, SectionTitles[k])) = 1
    /\ \A k \in 1..4 : SectionStart(doc, k) < SectionStart(doc, k + 1)
    /\ \A k \in 1..5 :
         /\ CellsWith(doc, SectionContent[k]) # {}
         /\ SectionStart(doc, k) <= ContentStart(doc, k)
         /\ k < 5 => \A i \in CellsWith(doc, SectionContent[k]) :
                         i < SectionStart(doc, k + 1)

\* A heading numbered n: "<n>. <title>" in the bold 12 point font.
IsNumberedHeading(c, n, title) ==
    /\ c.txt = IntToStr(n) \o <<". ", title>>
    /\ c.font = <<"B", 12>>

\* C9 as stated: the five sections in order, each starting with a numbered
\* heading, Metadata numbered 1 and Conclusion numbered 5.
C9_FiveNumberedSections ==
    outputFile.status = "complete" =>
        LET doc == outputFile.content
        IN  /\ SectionsInOrder(doc)
            /\ \A k \in 1..5 :
                 IsNumberedHeading(doc[SectionStart(doc, k)], k, SectionTitles[k])

\* C9 amended: the five sections in order; Metadata has no heading, and the
\* other four start with the headings numbered 1 (Summary) to 4 (Conclusion).
C9_FourNumberedSections ==
    outputFile.status = "complete" =>
        LET doc == outputFile.content
        IN  /\ SectionsInOrder(doc)
            /\ doc[SectionStart(doc, 1)].txt[1] = SectionTitles[1]
            /\ doc[SectionStart(doc, 1)].font = <<"", 11>>
            /\ \A k \in 2..5 :
                 IsNumberedHeading(doc[SectionStart(doc, k)], k - 1,
                                   SectionTitles[k])

\* C9 witness: a document with two departments and two table rows has been
\* written.
C9_Witness ==
    /\ outputFile.status = "complete"
    /\ Len(dept_avg.value) = 2
    /\ Len(employees.value) = 2

\* ------------------------------------------------- claims on the controller

\* The controller state a run is in, by the statement it is about to run.
ControllerState(p) ==
    CASE p = "check_file_exists" -> "Start"
      [] p = "read_csv_data" -> "Validated"
      [] p \in {"calculate_statistics", "department_wise_average"} -> "Loaded"
      [] p \in {"ReportPDF", "add_report_metadata", "add_summary_section",
                "add_department_analysis", "add_employee_table",
                "add_conclusion"} -> "Analyzed"
      [] p = "output" -> "Rendered"
      [] p = "print_success" -> "Persisted"
      [] p = "done" -> "Done"
      [] p = "aborted" -> "Aborted"

ControllerOrder ==
    <<"Start", "Validated", "Loaded", "Analyzed", "Rendered", "Persisted", "Done">>

Rank(st) == CHOOSE i \in 1..Len(ControllerOrder) : ControllerOrder[i] = st

Final == {"Done", "Aborted"}

\* A step of the controller: within a state it goes on to a later statement;
\* between states it goes to the next state of the order, or to Aborted; it
\* never leaves a final state.
ForwardStep ==
    LET from == ControllerState(pc)
        to == ControllerState(pc')
    IN  /\ from \notin Final
        /\ \/ to = "Aborted"
           \/ /\ to = from
              /\ StatementIndex(pc') > StatementIndex(pc)
           \/ /\ to # "Aborted"
              /\ Rank(to) = Rank(from) + 1

AbortedFrom(st) == pc = "aborted" /\ ControllerState(raised.at) = st

AbortedFromStart == AbortedFrom("Start")

AbortedFromValidated == AbortedFrom("Validated")

AbortedFromLoaded == AbortedFrom("Loaded")

AbortedFromAnalyzed == AbortedFrom("Analyzed")

AbortedFromRendered == AbortedFrom("Rendered")

====
